---- MODULE Spec2Model ----
(***************************************************************************)
(* Recipe API: nested writes of tags and ingredients through               *)
(* RecipeSerializer (app/recipe/serializers.py).                           *)
(*                                                                         *)
(* The store is the three tables the serializer touches: Tag rows,         *)
(* Ingredient rows and Recipe rows with their two many-to-many sets.       *)
(* An optional payload field is a sequence of length 0 (absent) or 1       *)
(* (present, holding the value); a descriptor list is a sequence of names. *)
(* The scalar recipe fields (title, link, time_minutes, price) take no     *)
(* part in the associations and are left out of the rows: a recipe row is  *)
(* its owner and its two many-to-many sets.                                *)
(***************************************************************************)
EXTENDS Integers, Sequences, FiniteSets, TLC

VARIABLES tagStore, ingredientStore, recipes, last, procs, obs, nreq

vars == <<tagStore, ingredientStore, recipes, last, procs, obs, nreq>>

----------------------------------------------------------------------------
(* Bounds and input domains *)

MaxRecipes == 2
MaxDesc == 2
MaxIngr == 1
MaxTags == 4
MaxReq == 2

Users == {"u1", "u2"}
Names == {"a", "b"}
Procs == {"p1", "p2"}

None == << >>
Some(v) == << v >>
Opt(S) == {None} \cup {Some(v) : v \in S}

RECURSIVE SeqsUpTo(_, _)
SeqsUpTo(S, n) ==
    IF n = 0 THEN {<< >>}
    ELSE LET shorter == SeqsUpTo(S, n - 1)
         IN  shorter \cup {Append(s, x) : s \in shorter, x \in S}

DescLists == SeqsUpTo(Names, MaxDesc)

IngrLists == SeqsUpTo(Names, MaxIngr)

Range(s) == {s[i] : i \in 1..Len(s)}

PayloadKeys == {"tags", "ingredients", "user"}

\* What auth_user may send: any tags, any ingredients, and possibly a user
\* field naming another user.
Payloads(auth_user) ==
    [tags : Opt(DescLists), ingredients : Opt(IngrLists),
     user : Opt(Users \ {auth_user})]

----------------------------------------------------------------------------
(* Serializer declaration *)

\* RecipeSerializer.Meta.fields, in declaration order.
MetaFields ==
    <<"id", "title", "link", "time_minutes", "price", "tags", "ingredients">>

\* RecipeSerializer.Meta.read_only_fields.
ReadOnlyFields == {"id"}

\* What the serializer hands to create/update: the payload keys that are
\* declared, writable fields; every other key of the payload is dropped.
Validate(payload) ==
    [f \in PayloadKeys |->
        IF f \in Range(MetaFields) \ ReadOnlyFields THEN payload[f] ELSE None]

\* The view saves a new recipe with user = the authenticated user.
perform_create(auth_user, payload) ==
    [Validate(payload) EXCEPT !["user"] = Some(auth_user)]

\* The queryset with the owner filter left out: every stored recipe.
get_queryset_any(auth_user, rid) ==
    /\ rid \in 1..Len(recipes)
    /\ recipes[rid].user \in Users

\* The view's queryset: a recipe is reachable by id only for its owner.
get_queryset(auth_user, rid) ==
    /\ rid \in 1..Len(recipes)
    /\ recipes[rid].user = auth_user

\* validated_data.pop(key, default), the value unwrapped.
Pop(validated_data, key, default) ==
    IF validated_data[key] = None THEN default ELSE validated_data[key][1]

----------------------------------------------------------------------------
(* Rows *)

NoId == <<"u1", "a", 0>>

NoRecipe == [user |-> "u1", tags |-> {}, ingredients |-> {}]

\* A fresh primary key. Keys are opaque: a new row is keyed by its natural
\* key and its ordinal among the rows that share it, so that rows with the
\* same (user, name) stay distinct rows.
NewId(store, user, name) ==
    <<user, name,
      Cardinality({t \in store : t.user = user /\ t.name = name}) + 1>>

\* Ingredient.objects.create(user=..., name=...) as the tests set it up.
IngredientFixtures == {[id |-> <<"u1", "a", 1>>, user |-> "u1", name |-> "a"]}

----------------------------------------------------------------------------
(* Tag.objects.get_or_create(user=auth_user, **tag) *)

\* The lookup without user=auth_user: rows of any owner match.
TagLookupAnyOwner(store, auth_user, name) ==
    {t \in store : t.name = name}

\* The lookup half: the rows matching the keyword arguments.
TagLookup(store, auth_user, name) ==
    {t \in store : t.user = auth_user /\ t.name = name}

\* Whether the Tag table rejects a second row with the same (user, name):
\* the name is not unique at the storage level.
TagUniqueConstraint == FALSE

\* The insert half of get_or_create.
TagInsert(store, auth_user, name) ==
    store \cup {[id |-> NewId(store, auth_user, name),
                 user |-> auth_user, name |-> name]}

\* Tag.objects.create in place of get_or_create: never reuses a row.
create_always(store, auth_user, name) ==
    [ok |-> TRUE, store |-> TagInsert(store, auth_user, name),
     obj |-> NewId(store, auth_user, name)]

\* One row: reuse it. No row: insert. Several rows: MultipleObjectsReturned.
get_or_create(store, auth_user, name) ==
    LET found == TagLookup(store, auth_user, name)
    IN  IF Cardinality(found) = 1
        THEN [ok |-> TRUE, store |-> store,
              obj |-> (CHOOSE t \in found : TRUE).id]
        ELSE IF found = {}
        THEN [ok |-> TRUE, store |-> TagInsert(store, auth_user, name),
              obj |-> NewId(store, auth_user, name)]
        ELSE [ok |-> FALSE, store |-> store, obj |-> NoId]

\* recipe.tags.set([tag_obj]) in place of add: the earlier ones are dropped.
TagsSet(rtags, obj) == {obj}

\* recipe.tags.add(tag_obj)
TagsAdd(rtags, obj) == rtags \cup {obj}

\* The clear left out.
TagsKept(rtags) == rtags

\* instance.tags.clear()
TagsClear(rtags) == {}

\* RecipeSerializer._get_or_create_tags: every statement commits at once,
\* so the rows and associations made before an exception stay.
RECURSIVE _get_or_create_tags(_, _, _, _)
_get_or_create_tags(store, rtags, auth_user, tags) ==
    IF tags = << >> THEN [ok |-> TRUE, store |-> store, tags |-> rtags]
    ELSE LET got == get_or_create(store, auth_user, Head(tags))
         IN  IF ~got.ok THEN [ok |-> FALSE, store |-> store, tags |-> rtags]
             ELSE _get_or_create_tags(got.store, TagsAdd(rtags, got.obj),
                                     auth_user, Tail(tags))

----------------------------------------------------------------------------
(* RecipeSerializer.create and RecipeSerializer.update *)

\* create: the recipe row is inserted from the remaining validated data,
\* then both descriptor lists go through _get_or_create_tags
\* (_get_or_create_ingredient is defined in the class and called nowhere).
create(store, auth_user, validated_data) ==
    LET tags == Pop(validated_data, "tags", << >>)
        ingredients == Pop(validated_data, "ingredients", << >>)
        recipe == [user |-> validated_data["user"][1],
                   tags |-> {}, ingredients |-> {}]
        r1 == _get_or_create_tags(store, recipe.tags, auth_user, tags)
        r2 == _get_or_create_tags(r1.store, r1.tags, auth_user, ingredients)
    IN  IF ~r1.ok
        THEN [ok |-> FALSE, store |-> r1.store,
              recipe |-> [recipe EXCEPT !.tags = r1.tags]]
        ELSE [ok |-> r2.ok, store |-> r2.store,
              recipe |-> [recipe EXCEPT !.tags = r2.tags]]

\* "if tags:" in place of "if tags is not None": an empty list is skipped.
TagsTruthy(tags) == tags # None /\ tags[1] # << >>

\* update's test on the popped tags: "if tags is not None".
TagsGiven(tags) == tags # None

\* setattr(instance, attr, value) can be carried out: the many-to-many
\* attributes refuse direct assignment (TypeError).
Assignable(attr) == attr \notin {"tags", "ingredients"}

\* setattr(instance, attr, value) for an assignable attribute.
SetAttr(instance, attr, value) ==
    IF attr = "user" THEN [instance EXCEPT !.user = value] ELSE instance

\* update inside one transaction: a failure undoes every statement of it.
update_atomic(store, auth_user, instance, validated_data) ==
    LET tags == validated_data["tags"]
        r1 == IF tags # None
              THEN _get_or_create_tags(store, {}, auth_user, tags[1])
              ELSE [ok |-> TRUE, store |-> store, tags |-> instance.tags]
        items == {f \in PayloadKeys \ {"tags"} : validated_data[f] # None}
    IN  IF ~r1.ok \/ (\E f \in items : f \in {"tags", "ingredients"})
        THEN [ok |-> FALSE, store |-> store, recipe |-> instance]
        ELSE [ok |-> TRUE, store |-> r1.store,
              recipe |-> [instance EXCEPT !.tags = r1.tags]]

\* update: tags are popped and, when given, cleared and reconciled; the
\* remaining items are set on the instance, which is then saved.
update(store, auth_user, instance, validated_data) ==
    LET tags == validated_data["tags"]
        r1 == IF TagsGiven(tags)
              THEN _get_or_create_tags(store, TagsClear(instance.tags),
                                      auth_user, tags[1])
              ELSE [ok |-> TRUE, store |-> store, tags |-> instance.tags]
        stored == [instance EXCEPT !.tags = r1.tags]
        items == {f \in PayloadKeys \ {"tags"} : validated_data[f] # None}
        saved == IF "user" \in items
                 THEN SetAttr(stored, "user", validated_data["user"][1])
                 ELSE stored
    IN  IF ~r1.ok THEN [ok |-> FALSE, store |-> r1.store, recipe |-> stored]
        ELSE IF \E f \in items : ~Assignable(f)
        THEN [ok |-> FALSE, store |-> r1.store, recipe |-> stored]
        ELSE [ok |-> TRUE, store |-> r1.store, recipe |-> saved]

----------------------------------------------------------------------------
(* Requests served one at a time *)

NoProc == [pc |-> "idle", op |-> "none", user |-> "u1", rid |-> 0,
           given |-> << >>, todo |-> << >>, obj |-> NoId,
           pre |-> {}, fresh |-> {}, status |-> 0]

NoObs == [seen |-> FALSE, rid |-> 0, tags |-> {}, pre |-> {}, given |-> << >>]

\* The names a descriptor list field carries, when the field is present.
NamesIn(field) == IF field = None THEN None ELSE Some(Range(field[1]))

\* The request just served and its outcome, until the response is returned:
\* who asked what of which recipe, the names each list field carried, the
\* recipe as it was before, and the status answered.
Record(op, auth_user, rid, payload, pre, ok) ==
    [op |-> op, user |-> auth_user, rid |-> rid,
     status |-> IF ok THEN (IF op = "create" THEN 201 ELSE 200) ELSE 500,
     tags |-> NamesIn(payload.tags),
     ingredients |-> NamesIn(payload.ingredients),
     puser |-> payload.user, pre |-> pre]

NoRequest ==
    Record("none", "u1", 0,
           [tags |-> None, ingredients |-> None, user |-> None],
           NoRecipe, TRUE)

Init ==
    /\ tagStore = {}
    /\ ingredientStore = IngredientFixtures
    /\ recipes = << >>
    /\ last = NoRequest
    /\ procs = [p \in Procs |-> NoProc]
    /\ obs = NoObs
    /\ nreq = 0

\* POST /recipes by auth_user.
Create(auth_user, payload) ==
    /\ Len(recipes) < MaxRecipes
    /\ LET r == create(tagStore, auth_user, perform_create(auth_user, payload))
       IN  /\ Cardinality(r.store) <= MaxTags
           /\ tagStore' = r.store
           /\ recipes' = Append(recipes, r.recipe)
           /\ last' = Record("create", auth_user, Len(recipes) + 1, payload,
                             NoRecipe, r.ok)
    /\ UNCHANGED <<ingredientStore, procs, obs, nreq>>

\* PUT/PATCH /recipes/{rid} by auth_user.
Update(auth_user, rid, payload) ==
    /\ get_queryset(auth_user, rid)
    /\ LET r == update(tagStore, auth_user, recipes[rid], Validate(payload))
       IN  /\ Cardinality(r.store) <= MaxTags
           /\ tagStore' = r.store
           /\ recipes' = [recipes EXCEPT ![rid] = r.recipe]
           /\ last' = Record("update", auth_user, rid, payload,
                             recipes[rid], r.ok)
    /\ UNCHANGED <<ingredientStore, procs, obs, nreq>>

\* The response leaves; the next request can be served.
Respond ==
    /\ last # NoRequest
    /\ last' = NoRequest
    /\ UNCHANGED <<tagStore, ingredientStore, recipes, procs, obs, nreq>>

\* One request is served at a time.
CreateRequest ==
    /\ last = NoRequest
    /\ \E u \in Users : \E p \in Payloads(u) : Create(u, p)

UpdateRequest ==
    /\ last = NoRequest
    /\ \E rid \in 1..Len(recipes), u \in Users :
          /\ get_queryset(u, rid)
          /\ \E p \in Payloads(u) : Update(u, rid, p)

Next ==
    \/ CreateRequest
    \/ UpdateRequest
    \/ Respond

Spec == Init /\ [][Next]_vars

----------------------------------------------------------------------------
(* Requests served in parallel: one step per database statement.  Nothing  *)
(* in create, update or _get_or_create_tags opens a transaction, so every  *)
(* statement commits on its own and other requests run between them.       *)

InFlight(p) == procs[p].pc \notin {"idle", "done"}

\* The names of a descriptor list the caller has no Tag row for.
Fresh(auth_user, tags) ==
    {n \in Range(tags) : TagLookup(tagStore, auth_user, n) = {}}

\* The request of a process has been answered with status; what the
\* process held for its loop is dropped.
Done(proc, status) ==
    [proc EXCEPT !.pc = "done", !.status = status, !.given = << >>,
                 !.todo = << >>, !.obj = NoId, !.pre = {}]

\* create, up to and including Recipe.objects.create.
BeginCreate(p, auth_user, tags) ==
    /\ ~InFlight(p)
    /\ nreq < MaxReq
    /\ Len(recipes) < MaxRecipes
    /\ nreq' = nreq + 1
    /\ recipes' = Append(recipes, [user |-> auth_user, tags |-> {},
                                   ingredients |-> {}])
    /\ procs' = [procs EXCEPT ![p] =
          LET begun == [pc |-> "lookup", op |-> "create",
                        user |-> auth_user, rid |-> Len(recipes) + 1,
                        given |-> tags, todo |-> tags, obj |-> NoId,
                        pre |-> {}, fresh |-> Fresh(auth_user, tags),
                        status |-> 0]
          IN  IF tags = << >> THEN Done(begun, 201) ELSE begun]
    /\ UNCHANGED <<tagStore, ingredientStore, last, obs>>

\* update, up to the test on the popped tags (a tags list is given).
BeginUpdate(p, auth_user, rid, tags) ==
    /\ ~InFlight(p)
    /\ nreq < MaxReq
    /\ get_queryset(auth_user, rid)
    /\ nreq' = nreq + 1
    /\ procs' = [procs EXCEPT ![p] =
          [pc |-> "clear", op |-> "update", user |-> auth_user, rid |-> rid,
           given |-> tags, todo |-> tags, obj |-> NoId,
           pre |-> recipes[rid].tags, fresh |-> Fresh(auth_user, tags),
           status |-> 0]]
    /\ UNCHANGED <<tagStore, ingredientStore, recipes, last, obs>>

\* instance.tags.clear()
Clear(p) ==
    /\ procs[p].pc = "clear"
    /\ recipes' = [recipes EXCEPT ![procs[p].rid].tags = TagsClear(@)]
    /\ procs' = [procs EXCEPT ![p].pc =
          IF procs[p].todo = << >> THEN "save" ELSE "lookup"]
    /\ UNCHANGED <<tagStore, ingredientStore, last, obs, nreq>>

\* get_or_create's lookup for the next descriptor.
Lookup(p) ==
    /\ procs[p].pc = "lookup"
    /\ LET found == TagLookup(tagStore, procs[p].user, Head(procs[p].todo))
       IN  procs' = [procs EXCEPT ![p] =
             IF Cardinality(found) = 1
             THEN [@ EXCEPT !.pc = "add",
                            !.obj = (CHOOSE t \in found : TRUE).id]
             ELSE IF found = {}
             THEN [@ EXCEPT !.pc = "insert"]
             ELSE Done(@, 500)]
    /\ UNCHANGED <<tagStore, ingredientStore, recipes, last, obs, nreq>>

\* get_or_create's insert after a lookup that found nothing. A row that
\* another request inserted meanwhile makes the insert fail only under a
\* uniqueness constraint (IntegrityError, answered by a second lookup).
Insert(p) ==
    /\ procs[p].pc = "insert"
    /\ LET user == procs[p].user
           name == Head(procs[p].todo)
       IN  IF TagUniqueConstraint /\ TagLookup(tagStore, user, name) # {}
           THEN /\ procs' = [procs EXCEPT ![p].pc = "lookup"]
                /\ UNCHANGED tagStore
           ELSE /\ Cardinality(tagStore) < MaxTags
                /\ tagStore' = TagInsert(tagStore, user, name)
                /\ procs' = [procs EXCEPT ![p] =
                      [@ EXCEPT !.pc = "add",
                                !.obj = NewId(tagStore, user, name)]]
    /\ UNCHANGED <<ingredientStore, recipes, last, obs, nreq>>

\* recipe.tags.add(tag_obj), then the next descriptor or the end of the loop.
Add(p) ==
    /\ procs[p].pc = "add"
    /\ recipes' = [recipes EXCEPT ![procs[p].rid].tags =
                      TagsAdd(@, procs[p].obj)]
    /\ LET rest == Tail(procs[p].todo)
       IN  procs' = [procs EXCEPT ![p] =
             IF rest # << >> THEN [@ EXCEPT !.pc = "lookup", !.todo = rest]
             ELSE IF procs[p].op = "update"
             THEN [@ EXCEPT !.pc = "save", !.todo = rest]
             ELSE Done(@, 201)]
    /\ UNCHANGED <<tagStore, ingredientStore, last, obs, nreq>>

\* instance.save() and the response of update.
Save(p) ==
    /\ procs[p].pc = "save"
    /\ procs' = [procs EXCEPT ![p] = Done(@, 200)]
    /\ UNCHANGED <<tagStore, ingredientStore, recipes, last, obs, nreq>>

\* GET /recipes/{rid} while the update of p on that recipe is in flight.
Retrieve(rid, p) ==
    /\ ~obs.seen
    /\ InFlight(p)
    /\ procs[p].op = "update"
    /\ procs[p].rid = rid
    /\ obs' = [seen |-> TRUE, rid |-> rid, tags |-> recipes[rid].tags,
               pre |-> procs[p].pre, given |-> procs[p].given]
    /\ UNCHANGED <<tagStore, ingredientStore, recipes, last, procs, nreq>>

NextConc ==
    \/ \E p \in Procs, u \in Users, d \in DescLists :
          BeginCreate(p, u, d)
    \/ \E p \in Procs, u \in Users, rid \in 1..Len(recipes),
          d \in DescLists : BeginUpdate(p, u, rid, d)
    \/ \E p \in Procs : Clear(p)
    \/ \E p \in Procs : Lookup(p)
    \/ \E p \in Procs : Insert(p)
    \/ \E p \in Procs : Add(p)
    \/ \E p \in Procs : Save(p)
    \/ \E p \in Procs, rid \in 1..Len(recipes) : Retrieve(rid, p)

SpecConc == Init /\ [][NextConc]_vars

----------------------------------------------------------------------------
(* The serializer's calls one at a time: create is a recipe row followed   *)
(* by two calls of _get_or_create_tags, update with tags is a clear        *)
(* followed by one call.  Each call is a step of its own here, so that     *)
(* what one call does to the store and to the recipe can be told apart.    *)

\* Recipe.objects.create(**validated_data) for auth_user.
RecipeCreated(auth_user) ==
    /\ last = NoRequest
    /\ Len(recipes) < MaxRecipes
    /\ recipes' = Append(recipes, [user |-> auth_user, tags |-> {},
                                   ingredients |-> {}])
    /\ UNCHANGED <<tagStore, ingredientStore, last, procs, obs, nreq>>

\* instance.tags.clear()
TagsCleared(rid) ==
    /\ last = NoRequest
    /\ recipes[rid].tags # {}
    /\ recipes' = [recipes EXCEPT ![rid].tags = TagsClear(@)]
    /\ UNCHANGED <<tagStore, ingredientStore, last, procs, obs, nreq>>

\* self._get_or_create_tags(tags, recipe), the request's user being the
\* recipe's owner.
Reconcile(rid, tags) ==
    /\ last = NoRequest
    /\ LET auth_user == recipes[rid].user
           r == _get_or_create_tags(tagStore, recipes[rid].tags,
                                    auth_user, tags)
       IN  /\ Cardinality(r.store) <= MaxTags
           /\ tagStore' = r.store
           /\ recipes' = [recipes EXCEPT ![rid].tags = r.tags]
           /\ last' = Record("reconcile", auth_user, rid,
                             [tags |-> Some(tags), ingredients |-> None,
                              user |-> None],
                             recipes[rid], r.ok)
    /\ UNCHANGED <<ingredientStore, procs, obs, nreq>>

NextCall ==
    \/ \E u \in Users : RecipeCreated(u)
    \/ \E rid \in 1..Len(recipes) : TagsCleared(rid)
    \/ \E rid \in 1..Len(recipes), d \in DescLists : Reconcile(rid, d)
    \/ Respond

SpecCall == Init /\ [][NextCall]_vars

----------------------------------------------------------------------------
(* The views: list, filter and delete.  Recipes are written through the    *)
(* serializer with a tags list; ingredients are attached the way the tests *)
(* attach them, with recipe.ingredients.add.                                *)

\* The place of a deleted recipe: its id is not given out again.
Deleted == [user |-> "nobody", tags |-> {}, ingredients |-> {}]

\* A filter parameter: absent, or a non-empty set of ids.
IdSets(store) == Opt((SUBSET {t.id : t \in store}) \ {{}})

NoQuery == [tags |-> None, ingredients |-> None, assigned_only |-> FALSE]

\* The filter read as "has every id of the parameter".
HasAll(ids, param) == param = None \/ param[1] \subseteq ids

\* One filter of the recipe list: without the parameter every recipe
\* passes, with it a recipe passes when one of its ids is in the parameter.
HasAny(ids, param) == param = None \/ ids \cap param[1] # {}

\* GET /recipes for auth_user: the caller's recipes among the first n that
\* pass both filters, by descending id.
RECURSIVE recipe_list(_, _, _, _)
recipe_list(auth_user, tags, ingredients, n) ==
    IF n = 0 THEN << >>
    ELSE LET rest == recipe_list(auth_user, tags, ingredients, n - 1)
         IN  IF /\ recipes[n].user = auth_user
                /\ HasAny(recipes[n].tags, tags)
                /\ HasAny(recipes[n].ingredients, ingredients)
             THEN <<n>> \o rest
             ELSE rest

\* The caller's rows of a store joined with the caller's recipes they are
\* attached to: one joined row per (entity, recipe) pair.
Joined(store, auth_user, field) ==
    {j \in {t.id : t \in {x \in store : x.user = auth_user}}
              \X (1..Len(recipes)) :
        /\ recipes[j[2]].user = auth_user
        /\ j[1] \in recipes[j[2]][field]}

\* The joined rows as they come, an entity once per recipe it is on.
NotDistinct(joined) ==
    [id \in {j[1] : j \in joined} |->
        Cardinality({j \in joined : j[1] = id})]

\* The joined rows deduplicated: how often each entity is listed.
Distinct(joined) == [id \in {j[1] : j \in joined} |-> 1]

\* GET /tags or /ingredients for auth_user: every row of the caller, or
\* with assigned_only the rows attached to a recipe.
attr_list(store, auth_user, field, assigned_only) ==
    IF assigned_only THEN Distinct(Joined(store, auth_user, field))
    ELSE [id \in {t.id : t \in {x \in store : x.user = auth_user}} |-> 1]

\* What a view answered, until the response is returned.
View(op, auth_user, rid, status, query, data, pre) ==
    [op |-> op, user |-> auth_user, rid |-> rid, status |-> status,
     query |-> query, data |-> data, pre |-> pre]

\* Payloads that carry at most a tags list.
TagPayloads ==
    [tags : Opt(DescLists), ingredients : {None}, user : {None}]

\* recipe.ingredients.add(ingredient), both of one user.
IngredientAdded(rid, ingredient) ==
    /\ last = NoRequest
    /\ ingredient.user = recipes[rid].user
    /\ ingredient.id \notin recipes[rid].ingredients
    /\ recipes' = [recipes EXCEPT ![rid].ingredients = @ \cup {ingredient.id}]
    /\ UNCHANGED <<tagStore, ingredientStore, last, procs, obs, nreq>>

\* GET /recipes?tags=..&ingredients=..
ListRecipes(auth_user, tags, ingredients) ==
    /\ last = NoRequest
    /\ last' = View("list_recipes", auth_user, 0, 200,
                    [tags |-> tags, ingredients |-> ingredients,
                     assigned_only |-> FALSE],
                    recipe_list(auth_user, tags, ingredients, Len(recipes)),
                    NoRecipe)
    /\ UNCHANGED <<tagStore, ingredientStore, recipes, procs, obs, nreq>>

\* GET /tags?assigned_only=..
ListTags(auth_user, assigned_only) ==
    /\ last = NoRequest
    /\ last' = View("list_tags", auth_user, 0, 200,
                    [NoQuery EXCEPT !.assigned_only = assigned_only],
                    attr_list(tagStore, auth_user, "tags", assigned_only),
                    NoRecipe)
    /\ UNCHANGED <<tagStore, ingredientStore, recipes, procs, obs, nreq>>

\* GET /ingredients?assigned_only=..
ListIngredients(auth_user, assigned_only) ==
    /\ last = NoRequest
    /\ last' = View("list_ingredients", auth_user, 0, 200,
                    [NoQuery EXCEPT !.assigned_only = assigned_only],
                    attr_list(ingredientStore, auth_user, "ingredients",
                              assigned_only),
                    NoRecipe)
    /\ UNCHANGED <<tagStore, ingredientStore, recipes, procs, obs, nreq>>

\* DELETE /recipes/{rid}: the owner's recipe is removed, its tags and
\* ingredients stay; anyone else is answered not-found.
Destroy(auth_user, rid) ==
    /\ last = NoRequest
    /\ IF get_queryset(auth_user, rid)
       THEN /\ recipes' = [recipes EXCEPT ![rid] = Deleted]
            /\ last' = View("destroy", auth_user, rid, 204, NoQuery, << >>,
                            recipes[rid])
       ELSE /\ recipes' = recipes
            /\ last' = View("destroy", auth_user, rid, 404, NoQuery, << >>,
                            recipes[rid])
    /\ UNCHANGED <<tagStore, ingredientStore, procs, obs, nreq>>

\* PUT/PATCH /recipes/{rid} by someone who does not own it: not-found.
UpdateRefused(auth_user, rid) ==
    /\ last = NoRequest
    /\ ~get_queryset(auth_user, rid)
    /\ last' = View("update", auth_user, rid, 404, NoQuery, << >>,
                    recipes[rid])
    /\ UNCHANGED <<tagStore, ingredientStore, recipes, procs, obs, nreq>>

NextView ==
    \/ /\ last = NoRequest
       /\ \E u \in Users, p \in TagPayloads : Create(u, p)
    \/ /\ last = NoRequest
       /\ \E rid \in 1..Len(recipes), u \in Users, p \in TagPayloads :
             get_queryset(u, rid) /\ Update(u, rid, p)
    \/ \E rid \in 1..Len(recipes), i \in ingredientStore :
          IngredientAdded(rid, i)
    \/ \E u \in Users, t \in IdSets(tagStore),
          i \in IdSets(ingredientStore) : ListRecipes(u, t, i)
    \/ \E u \in Users, a \in BOOLEAN : ListTags(u, a)
    \/ \E u \in Users, a \in BOOLEAN : ListIngredients(u, a)
    \/ \E u \in Users, rid \in 1..Len(recipes) : Destroy(u, rid)
    \/ \E u \in Users, rid \in 1..Len(recipes) : UpdateRefused(u, rid)
    \/ Respond

SpecView == Init /\ [][NextView]_vars

----------------------------------------------------------------------------
(* Properties of requests served one at a time (Spec) *)

Served == last.op # "none"

Target == recipes[last.rid]

TagRowsOf(user, names) ==
    {t \in tagStore : t.user = user /\ t.name \in names}

IngredientRowsOf(user, names) ==
    {t \in ingredientStore : t.user = user /\ t.name \in names}

TagNames(ids) == {t.name : t \in {x \in tagStore : x.id \in ids}}

IngredientNames(ids) ==
    {t.name : t \in {x \in ingredientStore : x.id \in ids}}

Given(field) == IF field = None THEN {} ELSE field[1]

\* C1: a user never holds two Tag rows with the same name, and the recipe
\* just written with tag name n is associated with the one Tag row of the
\* caller named n.
C1_OneTagPerName ==
    /\ \A t1, t2 \in tagStore :
          (t1.user = t2.user /\ t1.name = t2.name) => t1 = t2
    /\ (Served /\ last.tags # None) =>
          \A n \in Given(last.tags) :
             \E t \in tagStore :
                /\ t.user = last.user /\ t.name = n
                /\ t.id \in Target.tags

\* C1 witness: a second write by the same user names a tag that an earlier
\* recipe of that user already carries; both recipes share the row.
C1_Witness ==
    /\ last.op = "create" /\ last.rid = 2 /\ last.tags # None
    /\ recipes[1].user = last.user
    /\ \E t \in tagStore :
          /\ t.name \in Given(last.tags)
          /\ t.id \in recipes[1].tags \cap recipes[2].tags

\* C2: an update with tags = [] leaves the recipe with no tags; an update
\* without the tags field leaves the recipe's tags as they were.
C2_ClearOrKeep ==
    last.op = "update" =>
       /\ (last.tags = Some({})) => Target.tags = {}
       /\ (last.tags = None) => Target.tags = last.pre.tags

\* C2 witness: a recipe that had tags was updated with tags = [].
C2_Witness ==
    /\ last.op = "update" /\ last.tags = Some({})
    /\ last.pre.tags # {}
    /\ Target.tags = {}

\* C3: after an update carrying a tags list D the recipe's tags are exactly
\* the caller's Tag rows named in D, one per distinct name of D; every name
\* of D has its row, and no earlier tag outside D stays attached.
C3_TagsReplaced ==
    (last.op = "update" /\ last.tags # None) =>
       LET D == Given(last.tags)
       IN  /\ Target.tags = {t.id : t \in TagRowsOf(last.user, D)}
           /\ Cardinality(Target.tags) = Cardinality(D)
           /\ TagNames(Target.tags) = D
           /\ \A id \in last.pre.tags :
                 (TagNames({id}) \cap D = {}) => id \notin Target.tags

\* C3 witness: the update detached a tag not named in D and attached
\* another one.
C3_Witness ==
    /\ last.op = "update" /\ last.tags # None
    /\ last.pre.tags \ Target.tags # {}
    /\ Target.tags \ last.pre.tags # {}

\* C4: a created recipe has exactly the tags named in its tags list, one
\* per distinct name, all owned by the caller, whatever else the payload
\* carries.
C4_CreateTags ==
    last.op = "create" =>
       LET D == Given(last.tags)
       IN  /\ Cardinality(Target.tags) = Cardinality(D)
           /\ TagNames(Target.tags) = D
           /\ \A t \in tagStore : t.id \in Target.tags => t.user = last.user

\* C5: a create with an ingredients list D succeeds and the recipe holds one
\* Ingredient row of the caller per distinct name of D, existing rows reused.
C5_CreateIngredients ==
    (last.op = "create" /\ last.ingredients # None) =>
       LET D == Given(last.ingredients)
       IN  /\ last.status = 201
           /\ Cardinality(Target.ingredients) = Cardinality(D)
           /\ IngredientNames(Target.ingredients) = D
           /\ Target.ingredients =
                 {t.id : t \in IngredientRowsOf(last.user, D)}

\* C6: an update with an ingredients list D succeeds and the recipe's
\* ingredients are then exactly the caller's Ingredient rows named in D.
C6_UpdateIngredients ==
    (last.op = "update" /\ last.ingredients # None) =>
       LET D == Given(last.ingredients)
       IN  /\ last.status = 200
           /\ IngredientNames(Target.ingredients) = D
           /\ Target.ingredients =
                 {t.id : t \in IngredientRowsOf(last.user, D)}

\* C7: no update is an error, also when its payload names a user, and the
\* recipe's owner is afterwards who it was before.
C7_OwnerKept ==
    last.op = "update" =>
       /\ last.status = 200
       /\ Target.user = last.pre.user

\* The owner half of C7 alone: a recipe is created for the caller and no
\* update changes its owner, whatever its payload and outcome.
OwnerImmutable ==
    /\ last.op = "create" => Target.user = last.user
    /\ last.op = "update" => Target.user = last.pre.user

\* C8: every tag and every ingredient attached to a recipe has the
\* recipe's owner as its owner.
C8_SameOwner ==
    \A rid \in 1..Len(recipes) :
       /\ \A t \in tagStore :
             t.id \in recipes[rid].tags => t.user = recipes[rid].user
       /\ \A t \in ingredientStore :
             t.id \in recipes[rid].ingredients => t.user = recipes[rid].user

\* C8 witness: both users own a recipe carrying a tag of the same name.
C8_Witness ==
    /\ Len(recipes) = 2
    /\ recipes[1].user # recipes[2].user
    /\ \E n \in Names :
          /\ n \in TagNames(recipes[1].tags)
          /\ n \in TagNames(recipes[2].tags)

\* C15: the Tag rows made by the reconciliation step of an update stay
\* when the update fails afterwards: every name the failed update carried
\* has its row of the caller in the store, where the next lookup finds it.
C15_NoRollback ==
    (last.op = "update" /\ last.status = 500 /\ last.tags # None) =>
       \A n \in Given(last.tags) :
          Cardinality({t \in tagStore :
             t.user = last.user /\ t.name = n}) = 1

\* C15 witness: an update of a recipe without tags named a tag and failed
\* after its reconciliation; the row is stored and attached to no recipe
\* but the one the update was about.
C15_Witness ==
    /\ last.op = "update" /\ last.status = 500 /\ last.tags # None
    /\ last.pre.tags = {}
    /\ \E t \in tagStore :
          /\ t.user = last.user /\ t.name \in Given(last.tags)
          /\ \A rid \in 1..Len(recipes) :
                t.id \in recipes[rid].tags => rid = last.rid

----------------------------------------------------------------------------
(* Properties of one call of _get_or_create_tags (SpecCall) *)

\* C14: one call of _get_or_create_tags with descriptors D is additive: the
\* recipe's tags afterwards are its tags before together with the caller's
\* rows named in D, one per name; no row of the store is removed or
\* changed; every new row is the caller's, carries a name of D that had no
\* row of the caller, and nothing else of any recipe changes.
C14_Additive ==
    [][(last.op = "none" /\ last'.op = "reconcile") =>
          LET rid == last'.rid
              user == last'.user
              D == Given(last'.tags)
              resolved == {t \in tagStore' : t.user = user /\ t.name \in D}
          IN  /\ last'.status = 200
              /\ recipes'[rid].tags =
                    recipes[rid].tags \cup {t.id : t \in resolved}
              /\ Cardinality(resolved) = Cardinality(D)
              /\ tagStore \subseteq tagStore'
              /\ \A t \in tagStore' \ tagStore :
                    /\ t.user = user /\ t.name \in D
                    /\ ~ \E x \in tagStore :
                            x.user = t.user /\ x.name = t.name
              /\ recipes' = [recipes EXCEPT ![rid].tags = recipes'[rid].tags]
              /\ ingredientStore' = ingredientStore
    ]_vars

\* C14 witness: a call on a recipe that already had a tag outside D kept
\* that tag and attached another one.
C14_Witness ==
    /\ last.op = "reconcile"
    /\ \E id \in last.pre.tags :
          TagNames({id}) \cap Given(last.tags) = {} /\ id \in Target.tags
    /\ Target.tags \ last.pre.tags # {}

----------------------------------------------------------------------------
(* Properties of the views (SpecView) *)

\* C11: a list answered to a user holds only recipes, tags or ingredients
\* of that user, and a delete or update of a recipe by a user who does not
\* own it is answered not-found and leaves the recipe as it was.
C11_Isolation ==
    /\ last.op = "list_recipes" =>
          \A i \in 1..Len(last.data) :
             recipes[last.data[i]].user = last.user
    /\ last.op = "list_tags" =>
          \A t \in tagStore :
             t.id \in DOMAIN last.data => t.user = last.user
    /\ last.op = "list_ingredients" =>
          \A t \in ingredientStore :
             t.id \in DOMAIN last.data => t.user = last.user
    /\ (/\ last.op \in {"destroy", "update"}
        /\ last.pre.user \in Users
        /\ last.pre.user # last.user) =>
          /\ last.status = 404
          /\ recipes[last.rid] = last.pre

\* C11 witness: a user asked to delete a tagged recipe of the other user.
C11_Witness ==
    /\ last.op = "destroy"
    /\ last.pre.user \in Users /\ last.pre.user # last.user
    /\ last.pre.tags # {}
    /\ last.status = 404

\* C12: the recipe list answered for tags=S and ingredients=I holds exactly
\* the caller's recipes that have a tag whose id is in S (when S is given)
\* and an ingredient whose id is in I (when I is given).
C12_Filter ==
    last.op = "list_recipes" =>
       LET S == last.query.tags
           I == last.query.ingredients
       IN  Range(last.data) =
              {rid \in 1..Len(recipes) :
                 /\ recipes[rid].user = last.user
                 /\ S # None => recipes[rid].tags \cap S[1] # {}
                 /\ I # None => recipes[rid].ingredients \cap I[1] # {}}

\* C12 witness: with both parameters given, one recipe of the caller is
\* listed and another one, which has a tag of S but no ingredient of I, is
\* not.
C12_Witness ==
    /\ last.op = "list_recipes"
    /\ last.query.tags # None /\ last.query.ingredients # None
    /\ last.data # << >>
    /\ \E rid \in 1..Len(recipes) :
          /\ recipes[rid].user = last.user
          /\ recipes[rid].tags \cap last.query.tags[1] # {}
          /\ rid \notin Range(last.data)

\* C13: a tag or ingredient list with assigned_only holds exactly the
\* caller's rows of that kind that are attached to a recipe, each once.
C13_AssignedOnly ==
    (last.op \in {"list_tags", "list_ingredients"}
        /\ last.query.assigned_only) =>
       LET store == IF last.op = "list_tags" THEN tagStore
                    ELSE ingredientStore
           field == IF last.op = "list_tags" THEN "tags" ELSE "ingredients"
           want == {t.id : t \in {x \in store :
                      /\ x.user = last.user
                      /\ \E rid \in 1..Len(recipes) :
                            x.id \in recipes[rid][field]}}
       IN  /\ DOMAIN last.data = want
           /\ \A id \in want : last.data[id] = 1

\* C13 witness: the list holds a tag that is on two recipes and leaves out
\* a tag of the caller that is on none.
C13_Witness ==
    /\ last.op = "list_tags" /\ last.query.assigned_only
    /\ \E id \in DOMAIN last.data :
          Cardinality({rid \in 1..Len(recipes) :
             id \in recipes[rid].tags}) = 2
    /\ \E t \in tagStore :
          t.user = last.user /\ t.id \notin DOMAIN last.data

----------------------------------------------------------------------------
(* Properties of requests served in parallel (SpecConc) *)

\* C9: a reader of a recipe whose tags are being replaced by a non-empty
\* list sees the old tag set or the new one, never an emptied or partly
\* filled one.
C9_ReplaceAtomic ==
    (obs.seen /\ obs.given # << >>) =>
       \/ obs.tags = obs.pre
       \/ /\ obs.tags # {}
          /\ TagNames(obs.tags) = Range(obs.given)

\* C10: two requests of one user that both bring a tag name the user had
\* no row for both succeed and leave exactly one Tag row of that name.
C10_RaceBenign ==
    \A p, q \in Procs :
       (/\ p # q
        /\ procs[p].pc = "done" /\ procs[q].pc = "done"
        /\ procs[p].user = procs[q].user) =>
          \A n \in procs[p].fresh \cap procs[q].fresh :
             /\ procs[p].status \in {200, 201}
             /\ procs[q].status \in {200, 201}
             /\ Cardinality({t \in tagStore :
                    t.user = procs[p].user /\ t.name = n}) = 1

====
